---- MODULE Spec2Model ----
(***************************************************************************)
(* QMapControl GeometryPoint: a point geometry anchored at a world         *)
(* coordinate, drawn as a plain point or through a pixmap whose size       *)
(* scales with the zoom level (GeometryPoint.cpp).                         *)
(*                                                                         *)
(* Pixel quantities (qreal in the source) are kept exactly as dyadic       *)
(* rationals in fixed point: a pixel value v is stored as v * FP.  Every   *)
(* value the code computes within the zoom range is a multiple of 1/FP,    *)
(* so the divisions by powers of two and the halving of the alignment are  *)
(* exact, as they are in IEEE doubles.                                     *)
(***************************************************************************)
EXTENDS Integers, Sequences, FiniteSets, TLC

VARIABLES
    m_point_coord,                      \* PointWorldCoord
    m_pixmap,                           \* shared_ptr<QPixmap>: <<>> is nullptr, <<size>> a pixmap of that size
    m_alignment_type,                   \* AlignmentType
    m_base_zoom,                        \* int
    m_base_size_px,                     \* QSizeF
    m_draw_minimum_px,                  \* QSizeF
    m_draw_maximum_px,                  \* QSizeF
    m_zoom_minimum,                     \* Geometry: visibility range
    m_zoom_maximum,
    m_pen,                              \* Geometry: pen
    m_brush,                            \* Geometry: brush
    m_metadata,                         \* Geometry: key -> QVariant
    m_metadata_displayed_zoom_minimum,  \* Geometry: label threshold zoom
    call,                               \* the last member function called: name, arguments, return value
    emitted,                            \* the signals emitted during that call, in order
    painter                             \* the QPainter calls issued during that call, in order

config == <<m_point_coord, m_pixmap, m_alignment_type, m_base_zoom, m_base_size_px,
            m_draw_minimum_px, m_draw_maximum_px, m_zoom_minimum, m_zoom_maximum,
            m_pen, m_brush, m_metadata, m_metadata_displayed_zoom_minimum>>

vars == <<m_point_coord, m_pixmap, m_alignment_type, m_base_zoom, m_base_size_px,
          m_draw_minimum_px, m_draw_maximum_px, m_zoom_minimum, m_zoom_maximum,
          m_pen, m_brush, m_metadata, m_metadata_displayed_zoom_minimum,
          call, emitted, painter>>

(***************************************************************************)
(* Bounds and input sets.                                                  *)
(***************************************************************************)
\* controller zoom levels are 0..MaxZoom
MaxZoom == 11

\* world coordinates are the grid (0..MaxCoord) x (0..MaxCoord)
MaxCoord == 1

\* the value the constructors give m_base_zoom and the components of the draw sizes
Unset == -1

\* Geometry's default label threshold and label offset
DefaultMetadataZoom == 10

MetadataOffsetPx == 5

RECURSIVE Pow2(_)
Pow2(n) == IF n <= 0 THEN 1 ELSE 2 * Pow2(n - 1)

\* fixed-point units per pixel
FP == Pow2(MaxZoom + 1)

Zooms == 0 .. MaxZoom

Coords == (0 .. MaxCoord) \X (0 .. MaxCoord)

Size(w, h) == [width |-> w, height |-> h]

Rect(x, y, w, h) == [x |-> x, y |-> y, w |-> w, h |-> h]

\* QPixmap arguments, by their size; QPixmap() has size (0,0)
PixmapSizes == {Size(0, 0), Size(32, 32), Size(100, 50)}

\* QSizeF arguments of setDrawMinimumPx / setDrawMaximumPx
DrawSizes == {Size(Unset, Unset), Size(20, 20), Size(64, Unset)}

\* (zoom_minimum, zoom_maximum) constructor arguments; the first is the default
ZoomRanges == {<<0, 17>>, <<9, 10>>}

AlignmentTypes == {"TopLeft", "Top", "TopRight", "Left", "Middle", "Right",
                   "BottomLeft", "Bottom", "BottomRight"}

Pens == {"pen0", "pen1"}

Brushes == {"brush0", "brush1"}

NullVariant == "QVariant()"

MetadataValues == {NullVariant, "label"}

MetadataKey == "name"

\* pixel rectangles passed as the backbuffer rectangle / as the clicked area
BackbufferRects == {Rect(0, 0, 40 * FP, 40 * FP), Rect(48 * FP, 0, 40 * FP, 40 * FP)}

Areas == {Rect(0, 0, 40 * FP, 40 * FP), Rect(48 * FP, 48 * FP, 16 * FP, 16 * FP)}

(***************************************************************************)
(* Collaborators: Qt value types, Projection, Geometry.                    *)
(***************************************************************************)
\* QSize::isEmpty
isEmpty(size) == size.width <= 0 \/ size.height <= 0

\* PointWorldCoord::operator!=
CoordNotEqual(a, b) == a[1] # b[1] \/ a[2] # b[2]

\* Projection::toPointWorldPx: the world scales by two per zoom level
toPointWorldPx(coord, zoom) == <<coord[1] * Pow2(zoom) * FP, coord[2] * Pow2(zoom) * FP>>

\* Geometry::isVisible
isVisible(zoom) == m_zoom_minimum <= zoom /\ zoom <= m_zoom_maximum

\* Geometry::getMetadata
getMetadata(key) == m_metadata[key]

\* QRectF::intersects (sizes here are never negative)
Intersects(r1, r2) ==
    /\ r1.w # 0 /\ r2.w # 0
    /\ ~(r1.x >= r2.x + r2.w \/ r2.x >= r1.x + r1.w)
    /\ r1.h # 0 /\ r2.h # 0
    /\ ~(r1.y >= r2.y + r2.h \/ r2.y >= r1.y + r1.h)

\* QRectF::contains(QPointF)
Contains(r, p) ==
    /\ r.w # 0 /\ r.h # 0
    /\ ~(p[1] < r.x \/ p[1] > r.x + r.w)
    /\ ~(p[2] < r.y \/ p[2] > r.y + r.h)

\* QGraphicsItem::contains for a rectangular item
AreaContains(area, p) == Contains(area, p)

\* twice the fraction of the size that lies left of / above the anchor
AlignFx2(a) == IF a \in {"TopLeft", "Left", "BottomLeft"} THEN 0
               ELSE IF a \in {"Top", "Middle", "Bottom"} THEN 1 ELSE 2

AlignFy2(a) == IF a \in {"TopLeft", "Top", "TopRight"} THEN 0
               ELSE IF a \in {"Left", "Middle", "Right"} THEN 1 ELSE 2

\* Geometry::calculateTopLeftPoint
calculateTopLeftPoint(point_px, alignment_type, size_px) ==
    <<point_px[1] - (size_px.width * AlignFx2(alignment_type)) \div 2,
      point_px[2] - (size_px.height * AlignFy2(alignment_type)) \div 2>>

(***************************************************************************)
(* GeometryPoint::calculateGeometrySizePx                                  *)
(***************************************************************************)
Max(a, b) == IF a >= b THEN a ELSE b

Min(a, b) == IF a <= b THEN a ELSE b

\* v / std::pow(2.0, d), v in fixed point
DivPow2(v, d) == IF d >= 0 THEN v \div Pow2(d) ELSE v * Pow2(0 - d)

HasPixmap == m_pixmap # <<>> /\ ~isEmpty(m_pixmap[1])

BaseZoomSet_SentinelOnly == m_base_zoom # 0

\* "Do we have a base zoom set?"
BaseZoomSet == m_base_zoom > 0

ScaleByZoom_Inverted(base_px, controller_zoom) ==
    DivPow2(base_px * FP, controller_zoom - m_base_zoom)

\* base / 2^(m_base_zoom - controller_zoom)
ScaleByZoom(base_px, controller_zoom) ==
    DivPow2(base_px * FP, m_base_zoom - controller_zoom)

\* std::max with the minimum, when one is set
ClampMinimum(v, minimum_px) ==
    IF minimum_px > Unset THEN Max(v, minimum_px * FP) ELSE v

\* std::min with the maximum, when one is set
ClampMaximum(v, maximum_px) ==
    IF maximum_px > Unset THEN Min(v, maximum_px * FP) ELSE v

calculateGeometrySizePx(controller_zoom) ==
    IF HasPixmap
    THEN IF BaseZoomSet
         THEN Size(ClampMaximum(ClampMinimum(ScaleByZoom(m_base_size_px.width, controller_zoom),
                                             m_draw_minimum_px.width),
                                m_draw_maximum_px.width),
                   ClampMaximum(ClampMinimum(ScaleByZoom(m_base_size_px.height, controller_zoom),
                                             m_draw_minimum_px.height),
                                m_draw_maximum_px.height))
         ELSE Size(m_pixmap[1].width * FP, m_pixmap[1].height * FP)
    ELSE Size(1 * FP, 1 * FP)

(***************************************************************************)
(* Construction.                                                           *)
(***************************************************************************)
Init ==
    /\ m_point_coord \in Coords
    /\ \E pixmap \in PixmapSizes :
          /\ m_pixmap = <<pixmap>>
          /\ m_base_size_px = pixmap
    /\ m_alignment_type = "Middle"
    /\ m_base_zoom = Unset
    /\ m_draw_minimum_px = Size(Unset, Unset)
    /\ m_draw_maximum_px = Size(Unset, Unset)
    /\ \E range \in ZoomRanges :
          /\ m_zoom_minimum = range[1]
          /\ m_zoom_maximum = range[2]
    /\ m_pen = "pen0"
    /\ m_brush = "brush0"
    /\ m_metadata = [k \in {MetadataKey} |-> NullVariant]
    /\ m_metadata_displayed_zoom_minimum = DefaultMetadataZoom
    /\ call = [op |-> "GeometryPoint", args |-> <<>>, ret |-> "void"]
    /\ emitted = <<>>
    /\ painter = <<>>

(***************************************************************************)
(* Mutators.                                                               *)
(***************************************************************************)
Called(op, args, ret) == call' = [op |-> op, args |-> args, ret |-> ret]

setCoord_PositionFirst(point) ==
    /\ IF CoordNotEqual(m_point_coord, point)
       THEN /\ m_point_coord' = point
            /\ emitted' = <<"positionChanged(this)", "requestRedraw">>
       ELSE /\ m_point_coord' = m_point_coord
            /\ emitted' = <<>>
    /\ painter' = <<>>
    /\ Called("setCoord", <<point>>, "void")
    /\ UNCHANGED <<m_pixmap, m_alignment_type, m_base_zoom, m_base_size_px,
                   m_draw_minimum_px, m_draw_maximum_px, m_zoom_minimum, m_zoom_maximum,
                   m_pen, m_brush, m_metadata, m_metadata_displayed_zoom_minimum>>

setCoord_Unguarded(point) ==
    /\ m_point_coord' = point
    /\ emitted' = <<"requestRedraw", "positionChanged(this)">>
    /\ painter' = <<>>
    /\ Called("setCoord", <<point>>, "void")
    /\ UNCHANGED <<m_pixmap, m_alignment_type, m_base_zoom, m_base_size_px,
                   m_draw_minimum_px, m_draw_maximum_px, m_zoom_minimum, m_zoom_maximum,
                   m_pen, m_brush, m_metadata, m_metadata_displayed_zoom_minimum>>

setCoord(point) ==
    /\ IF CoordNotEqual(m_point_coord, point)
       THEN /\ m_point_coord' = point
            /\ emitted' = <<"requestRedraw", "positionChanged(this)">>
       ELSE /\ m_point_coord' = m_point_coord
            /\ emitted' = <<>>
    /\ painter' = <<>>
    /\ Called("setCoord", <<point>>, "void")
    /\ UNCHANGED <<m_pixmap, m_alignment_type, m_base_zoom, m_base_size_px,
                   m_draw_minimum_px, m_draw_maximum_px, m_zoom_minimum, m_zoom_maximum,
                   m_pen, m_brush, m_metadata, m_metadata_displayed_zoom_minimum>>

\* setPixmap(const std::shared_ptr<QPixmap>&); pixmap is <<>> for nullptr
setPixmapPtr(pixmap) ==
    /\ m_pixmap' = pixmap
    /\ m_base_size_px' = IF pixmap # <<>> THEN pixmap[1] ELSE m_base_size_px
    /\ emitted' = <<"requestRedraw">>
    /\ painter' = <<>>
    /\ Called("setPixmap", <<pixmap>>, "void")
    /\ UNCHANGED <<m_point_coord, m_alignment_type, m_base_zoom,
                   m_draw_minimum_px, m_draw_maximum_px, m_zoom_minimum, m_zoom_maximum,
                   m_pen, m_brush, m_metadata, m_metadata_displayed_zoom_minimum>>

setPixmap_KeepBaseSize(pixmap) ==
    /\ m_pixmap' = <<pixmap>>
    /\ m_base_size_px' = m_base_size_px
    /\ emitted' = <<"requestRedraw">>
    /\ painter' = <<>>
    /\ Called("setPixmap", <<<<pixmap>>>>, "void")
    /\ UNCHANGED <<m_point_coord, m_alignment_type, m_base_zoom,
                   m_draw_minimum_px, m_draw_maximum_px, m_zoom_minimum, m_zoom_maximum,
                   m_pen, m_brush, m_metadata, m_metadata_displayed_zoom_minimum>>

\* setPixmap(const QPixmap&)
setPixmap(pixmap) ==
    /\ m_pixmap' = <<pixmap>>
    /\ m_base_size_px' = pixmap
    /\ emitted' = <<"requestRedraw">>
    /\ painter' = <<>>
    /\ Called("setPixmap", <<<<pixmap>>>>, "void")
    /\ UNCHANGED <<m_point_coord, m_alignment_type, m_base_zoom,
                   m_draw_minimum_px, m_draw_maximum_px, m_zoom_minimum, m_zoom_maximum,
                   m_pen, m_brush, m_metadata, m_metadata_displayed_zoom_minimum>>

\* GeometryPoint::updatePixmap: "Do nothing", then one redraw request
updatePixmap == <<"requestRedraw">>

\* Geometry::setPen / Geometry::setBrush: store the style, one redraw request
GeometrySetStyle == <<"requestRedraw">>

setPen(pen) ==
    /\ m_pen' = pen
    /\ emitted' = GeometrySetStyle \o updatePixmap
    /\ painter' = <<>>
    /\ Called("setPen", <<pen>>, "void")
    /\ UNCHANGED <<m_point_coord, m_pixmap, m_alignment_type, m_base_zoom, m_base_size_px,
                   m_draw_minimum_px, m_draw_maximum_px, m_zoom_minimum, m_zoom_maximum,
                   m_brush, m_metadata, m_metadata_displayed_zoom_minimum>>

setBrush(brush) ==
    /\ m_brush' = brush
    /\ emitted' = GeometrySetStyle \o updatePixmap
    /\ painter' = <<>>
    /\ Called("setBrush", <<brush>>, "void")
    /\ UNCHANGED <<m_point_coord, m_pixmap, m_alignment_type, m_base_zoom, m_base_size_px,
                   m_draw_minimum_px, m_draw_maximum_px, m_zoom_minimum, m_zoom_maximum,
                   m_pen, m_metadata, m_metadata_displayed_zoom_minimum>>

setAlignmentType(alignment_type) ==
    /\ m_alignment_type' = alignment_type
    /\ emitted' = <<>>
    /\ painter' = <<>>
    /\ Called("setAlignmentType", <<alignment_type>>, "void")
    /\ UNCHANGED <<m_point_coord, m_pixmap, m_base_zoom, m_base_size_px,
                   m_draw_minimum_px, m_draw_maximum_px, m_zoom_minimum, m_zoom_maximum,
                   m_pen, m_brush, m_metadata, m_metadata_displayed_zoom_minimum>>

setBaseZoom(zoom) ==
    /\ m_base_zoom' = zoom
    /\ emitted' = <<>>
    /\ painter' = <<>>
    /\ Called("setBaseZoom", <<zoom>>, "void")
    /\ UNCHANGED <<m_point_coord, m_pixmap, m_alignment_type, m_base_size_px,
                   m_draw_minimum_px, m_draw_maximum_px, m_zoom_minimum, m_zoom_maximum,
                   m_pen, m_brush, m_metadata, m_metadata_displayed_zoom_minimum>>

setDrawMinimumPx(size_px) ==
    /\ m_draw_minimum_px' = size_px
    /\ emitted' = <<>>
    /\ painter' = <<>>
    /\ Called("setDrawMinimumPx", <<size_px>>, "void")
    /\ UNCHANGED <<m_point_coord, m_pixmap, m_alignment_type, m_base_zoom, m_base_size_px,
                   m_draw_maximum_px, m_zoom_minimum, m_zoom_maximum,
                   m_pen, m_brush, m_metadata, m_metadata_displayed_zoom_minimum>>

setDrawMaximumPx(size_px) ==
    /\ m_draw_maximum_px' = size_px
    /\ emitted' = <<>>
    /\ painter' = <<>>
    /\ Called("setDrawMaximumPx", <<size_px>>, "void")
    /\ UNCHANGED <<m_point_coord, m_pixmap, m_alignment_type, m_base_zoom, m_base_size_px,
                   m_draw_minimum_px, m_zoom_minimum, m_zoom_maximum,
                   m_pen, m_brush, m_metadata, m_metadata_displayed_zoom_minimum>>

\* Geometry::setMetadata: a redraw request only when the displayed key changes value
setMetadata(key, value) ==
    /\ m_metadata' = [m_metadata EXCEPT ![key] = value]
    /\ emitted' = IF key = MetadataKey /\ m_metadata[key] # value
                  THEN <<"requestRedraw">> ELSE <<>>
    /\ painter' = <<>>
    /\ Called("setMetadata", <<key, value>>, "void")
    /\ UNCHANGED <<m_point_coord, m_pixmap, m_alignment_type, m_base_zoom, m_base_size_px,
                   m_draw_minimum_px, m_draw_maximum_px, m_zoom_minimum, m_zoom_maximum,
                   m_pen, m_brush, m_metadata_displayed_zoom_minimum>>

\* Geometry::setMetadataDisplayed: the threshold zoom of the label
setMetadataDisplayed(zoom_minimum) ==
    /\ m_metadata_displayed_zoom_minimum' = zoom_minimum
    /\ emitted' = <<>>
    /\ painter' = <<>>
    /\ Called("setMetadataDisplayed", <<zoom_minimum>>, "void")
    /\ UNCHANGED <<m_point_coord, m_pixmap, m_alignment_type, m_base_zoom, m_base_size_px,
                   m_draw_minimum_px, m_draw_maximum_px, m_zoom_minimum, m_zoom_maximum,
                   m_pen, m_brush, m_metadata>>

(***************************************************************************)
(* Queries: calculateGeometrySizePx, touches, draw.                        *)
(***************************************************************************)
\* a call of calculateGeometrySizePx; its result is the return value
calculateSize(controller_zoom) ==
    /\ emitted' = <<>>
    /\ painter' = <<>>
    /\ Called("calculateSize", <<controller_zoom>>, calculateGeometrySizePx(controller_zoom))
    /\ UNCHANGED config

touchesResult_IgnoreVisibility(area_px, controller_zoom) ==
    AreaContains(area_px, toPointWorldPx(m_point_coord, controller_zoom))

\* return_touches
touchesResult(area_px, controller_zoom) ==
    /\ isVisible(controller_zoom)
    /\ AreaContains(area_px, toPointWorldPx(m_point_coord, controller_zoom))

touches(area_px, controller_zoom) ==
    /\ emitted' = IF touchesResult(area_px, controller_zoom)
                  THEN <<"geometryClicked(this)">> ELSE <<>>
    /\ painter' = <<>>
    /\ Called("touches", <<area_px, controller_zoom>>, touchesResult(area_px, controller_zoom))
    /\ UNCHANGED config

PainterCall(fn, args) == [fn |-> fn, args |-> args]

\* "Do we have a meta-data value and should we display it at this zoom?"
MetadataLabel(position_px, controller_zoom) ==
    IF controller_zoom >= m_metadata_displayed_zoom_minimum /\ getMetadata(MetadataKey) # NullVariant
    THEN <<PainterCall("drawText", <<position_px, getMetadata(MetadataKey)>>)>>
    ELSE <<>>

pixmapRect(controller_zoom) ==
    LET point_px == toPointWorldPx(m_point_coord, controller_zoom)
        pixmap_size_px == calculateGeometrySizePx(controller_zoom)
        top_left == calculateTopLeftPoint(point_px, m_alignment_type, pixmap_size_px)
    IN  Rect(top_left[1], top_left[2], pixmap_size_px.width, pixmap_size_px.height)

drawPixmapBranch_LabelUnculled(backbuffer_rect_px, controller_zoom) ==
    LET pixmap_rect == pixmapRect(controller_zoom)
        label == MetadataLabel(<<pixmap_rect.x + pixmap_rect.w + MetadataOffsetPx * FP,
                                 pixmap_rect.y - MetadataOffsetPx * FP>>, controller_zoom)
    IN  IF Intersects(backbuffer_rect_px, pixmap_rect)
        THEN <<PainterCall("drawPixmap", <<pixmap_rect, m_pixmap[1]>>)>> \o label
        ELSE label

\* the branch of draw taken with a non-empty pixmap
drawPixmapBranch(backbuffer_rect_px, controller_zoom) ==
    LET pixmap_rect == pixmapRect(controller_zoom)
    IN  IF Intersects(backbuffer_rect_px, pixmap_rect)
        THEN <<PainterCall("drawPixmap", <<pixmap_rect, m_pixmap[1]>>)>>
             \o MetadataLabel(<<pixmap_rect.x + pixmap_rect.w + MetadataOffsetPx * FP,
                                pixmap_rect.y - MetadataOffsetPx * FP>>, controller_zoom)
        ELSE <<>>

\* the branch of draw taken without one: "We can just draw the point"
drawPointBranch(backbuffer_rect_px, controller_zoom) ==
    LET point_px == toPointWorldPx(m_point_coord, controller_zoom)
    IN  IF Contains(backbuffer_rect_px, point_px)
        THEN <<PainterCall("setPen", <<m_pen>>), PainterCall("drawPoint", <<point_px>>)>>
             \o MetadataLabel(<<point_px[1] + MetadataOffsetPx * FP,
                                point_px[2] - MetadataOffsetPx * FP>>, controller_zoom)
        ELSE <<>>

drawCalls_IgnoreVisibility(backbuffer_rect_px, controller_zoom) ==
    IF HasPixmap
    THEN drawPixmapBranch(backbuffer_rect_px, controller_zoom)
    ELSE drawPointBranch(backbuffer_rect_px, controller_zoom)

\* the painter calls of one draw
drawCalls(backbuffer_rect_px, controller_zoom) ==
    IF isVisible(controller_zoom)
    THEN IF HasPixmap
         THEN drawPixmapBranch(backbuffer_rect_px, controller_zoom)
         ELSE drawPointBranch(backbuffer_rect_px, controller_zoom)
    ELSE <<>>

draw(backbuffer_rect_px, controller_zoom) ==
    /\ painter' = drawCalls(backbuffer_rect_px, controller_zoom)
    /\ emitted' = <<>>
    /\ Called("draw", <<backbuffer_rect_px, controller_zoom>>, "void")
    /\ UNCHANGED config

(***************************************************************************)
(* Specifications.                                                         *)
(***************************************************************************)
\* coordinate, image and style changes, and clicks
NextNotify ==
    \/ \E point \in Coords : setCoord(point)
    \/ \E pixmap \in PixmapSizes : setPixmap(pixmap)
    \/ \E pixmap \in {<<>>} \cup {<<p>> : p \in PixmapSizes} : setPixmapPtr(pixmap)
    \/ \E pen \in Pens : setPen(pen)
    \/ \E brush \in Brushes : setBrush(brush)
    \/ \E alignment_type \in AlignmentTypes : setAlignmentType(alignment_type)
    \/ \E area \in Areas, zoom \in Zooms : touches(area, zoom)

SpecNotify == Init /\ [][NextNotify]_vars

\* image and sizing attributes, and the size computed from them
NextSize ==
    \/ \E pixmap \in PixmapSizes : setPixmap(pixmap)
    \/ \E pixmap \in {<<>>} \cup {<<p>> : p \in PixmapSizes} : setPixmapPtr(pixmap)
    \/ \E zoom \in {Unset} \cup Zooms : setBaseZoom(zoom)
    \/ \E size_px \in DrawSizes : setDrawMinimumPx(size_px)
    \/ \E size_px \in DrawSizes : setDrawMaximumPx(size_px)
    \/ \E zoom \in Zooms : calculateSize(zoom)

SpecSize == Init /\ [][NextSize]_vars

\* everything draw reads, and draw
NextDraw ==
    \/ \E point \in Coords : setCoord(point)
    \/ \E pixmap \in PixmapSizes : setPixmap(pixmap)
    \/ \E pixmap \in {<<>>} \cup {<<p>> : p \in PixmapSizes} : setPixmapPtr(pixmap)
    \/ \E pen \in Pens : setPen(pen)
    \/ \E alignment_type \in AlignmentTypes : setAlignmentType(alignment_type)
    \/ \E zoom \in {Unset, MaxZoom - 1} : setBaseZoom(zoom)
    \/ \E value \in MetadataValues : setMetadata(MetadataKey, value)
    \/ \E zoom \in {0, DefaultMetadataZoom} : setMetadataDisplayed(zoom)
    \/ \E rect \in BackbufferRects, zoom \in Zooms : draw(rect, zoom)

SpecDraw == Init /\ [][NextDraw]_vars

(***************************************************************************)
(* Properties of setCoord and touches (SpecNotify).                        *)
(***************************************************************************)
\* C1: a setCoord(p) with p different from the current coordinate makes the
\* coordinate p and emits exactly requestRedraw, then positionChanged(this).
C1_SetCoordNotifiesInOrder ==
    [][(call'.op = "setCoord" /\ CoordNotEqual(m_point_coord, call'.args[1]))
         => /\ m_point_coord' = call'.args[1]
            /\ emitted' = <<"requestRedraw", "positionChanged(this)">>]_vars

C1_Witness ==
    /\ call.op = "setCoord"
    /\ m_point_coord = call.args[1]
    /\ Len(emitted) = 2
    /\ emitted[1] = "requestRedraw"
    /\ emitted[2] = "positionChanged(this)"

\* C2: a setCoord(p) with p equal to the current coordinate changes no
\* attribute and emits nothing; so of two consecutive setCoord calls with the
\* same argument the second emits nothing.
C2_SetCoordSameIsNoOp ==
    [][/\ (call'.op = "setCoord" /\ call'.args[1] = m_point_coord)
            => (emitted' = <<>> /\ UNCHANGED config)
       /\ (call.op = "setCoord" /\ call'.op = "setCoord" /\ call'.args = call.args)
            => emitted' = <<>>]_vars

C2_Witness ==
    /\ call.op = "setCoord"
    /\ m_point_coord = call.args[1]
    /\ emitted = <<>>

\* the hit test the claim describes: visible, and the anchor pixel inside the area
C6_Hit(area, zoom) ==
    /\ m_zoom_minimum <= zoom
    /\ zoom <= m_zoom_maximum
    /\ AreaContains(area, toPointWorldPx(m_point_coord, zoom))

\* C6: touches returns true and emits exactly one geometryClicked(this) iff
\* the geometry is visible at the zoom and its anchor pixel is inside the
\* area, otherwise returns false and emits nothing; it changes no attribute.
C6_TouchesIffVisibleAndInside ==
    /\ [](call.op = "touches"
            => /\ call.ret = C6_Hit(call.args[1], call.args[2])
               /\ call.ret => emitted = <<"geometryClicked(this)">>
               /\ ~call.ret => emitted = <<>>)
    /\ [][call'.op = "touches" => UNCHANGED config]_vars

C6_Witness ==
    /\ call.op = "touches"
    /\ call.ret = TRUE
    /\ emitted = <<"geometryClicked(this)">>
    /\ HasPixmap
    /\ m_alignment_type = "TopLeft"

(***************************************************************************)
(* Properties of the computed size (SpecSize).                             *)
(***************************************************************************)
NoClamp == m_draw_minimum_px = Size(Unset, Unset) /\ m_draw_maximum_px = Size(Unset, Unset)

\* r (fixed point) is base_px pixels times 2^e
IsTimesPow2(r, base_px, e) ==
    IF e >= 0 THEN r = base_px * FP * Pow2(e) ELSE r * Pow2(0 - e) = base_px * FP

C4_UnsetBaseZoomReturnsBaseSize ==
    (call.op = "calculateSize" /\ HasPixmap /\ m_base_zoom = Unset)
        => call.ret = Size(m_base_size_px.width * FP, m_base_size_px.height * FP)

C4_Witness ==
    /\ call.op = "calculateSize"
    /\ call.args[1] = 3
    /\ m_base_zoom = Unset
    /\ m_pixmap = <<Size(100, 50)>>
    /\ m_draw_maximum_px = Size(64, Unset)
    /\ m_draw_minimum_px = Size(20, 20)
    /\ call.ret = Size(100 * FP, 50 * FP)

\* r respects the draw sizes lo and hi (pixels, Unset for none)
C5_Within(r, lo, hi) ==
    /\ (hi # Unset) => r <= hi * FP
    /\ (lo # Unset /\ (hi = Unset \/ lo <= hi)) => r >= lo * FP

\* C5: with a non-empty pixmap and a base zoom set, each component of the
\* size is at least the configured minimum and at most the configured
\* maximum; a side holding -1 is not clamped.
C5_Claim ==
    (call.op = "calculateSize" /\ HasPixmap /\ m_base_zoom # Unset)
        => /\ C5_Within(call.ret.width, m_draw_minimum_px.width, m_draw_maximum_px.width)
           /\ C5_Within(call.ret.height, m_draw_minimum_px.height, m_draw_maximum_px.height)

\* the size the sizing algorithm gives once the base zoom counts as set
C9_Scaled(base_px, lo, hi, zoom) ==
    LET s == DivPow2(base_px * FP, m_base_zoom - zoom)
        a == IF lo # Unset /\ s < lo * FP THEN lo * FP ELSE s
    IN  IF hi # Unset /\ a > hi * FP THEN hi * FP ELSE a

\* C9: with a non-empty pixmap and any base zoom >= 0, zero included, the
\* size is the scaled and clamped one, not the unscaled base size.
C9_Claim ==
    (call.op = "calculateSize" /\ HasPixmap /\ m_base_zoom >= 0)
        => call.ret = Size(C9_Scaled(m_base_size_px.width, m_draw_minimum_px.width,
                                     m_draw_maximum_px.width, call.args[1]),
                           C9_Scaled(m_base_size_px.height, m_draw_minimum_px.height,
                                     m_draw_maximum_px.height, call.args[1]))

\* C8: every setPixmap installs its argument and emits exactly one
\* requestRedraw; a non-null pixmap sets base_size to its size, nullptr
\* leaves base_size alone and makes the computed size (1,1); so base_size is
\* the size of the current pixmap whenever there is one.
C8_SetPixmapKeepsBaseSize ==
    /\ [][call'.op = "setPixmap"
            => /\ emitted' = <<"requestRedraw">>
               /\ m_pixmap' = call'.args[1]
               /\ m_base_size_px' = IF call'.args[1] # <<>> THEN call'.args[1][1]
                                    ELSE m_base_size_px]_vars
    /\ [](/\ m_pixmap # <<>> => m_base_size_px = m_pixmap[1]
          /\ (call.op = "calculateSize" /\ m_pixmap = <<>>) => call.ret = Size(FP, FP))

C8_Witness ==
    /\ call.op = "calculateSize"
    /\ m_pixmap = <<>>
    /\ m_base_size_px = Size(32, 32)
    /\ call.ret = Size(FP, FP)

(***************************************************************************)
(* Properties of draw (SpecDraw).                                          *)
(***************************************************************************)
PainterFns == [i \in 1 .. Len(painter) |-> painter[i].fn]

\* C7: a draw at a zoom outside the visibility range issues no painter call.
C7_InvisibleDrawsNothing ==
    (call.op = "draw" /\ ~(m_zoom_minimum <= call.args[2] /\ call.args[2] <= m_zoom_maximum))
        => painter = <<>>

C7_Witness ==
    /\ call.op = "draw"
    /\ call.args[2] > m_zoom_maximum
    /\ HasPixmap
    /\ Intersects(call.args[1], pixmapRect(call.args[2]))
    /\ m_metadata[MetadataKey] # NullVariant
    /\ m_pen = "pen1"
    /\ painter = <<>>

C10_LabelWanted(zoom) ==
    zoom >= m_metadata_displayed_zoom_minimum /\ m_metadata[MetadataKey] # NullVariant

\* C10: in a draw of a visible geometry, with a non-empty pixmap drawPixmap
\* is issued exactly when the aligned rectangle intersects the backbuffer
\* rectangle and drawPoint never; without one setPen, drawPoint are issued
\* exactly when the anchor pixel is inside it and drawPixmap never; drawText
\* comes at most once, last, only after a drawPixmap or drawPoint and only
\* at or above the threshold zoom with a non-null displayed value.
C10_DrawCullsAndOrders ==
    (call.op = "draw" /\ m_zoom_minimum <= call.args[2] /\ call.args[2] <= m_zoom_maximum)
        => LET rect == call.args[1]
               zoom == call.args[2]
               hasImage == m_pixmap # <<>> /\ m_pixmap[1].width > 0 /\ m_pixmap[1].height > 0
               shown == IF hasImage THEN Intersects(rect, pixmapRect(zoom))
                        ELSE Contains(rect, toPointWorldPx(m_point_coord, zoom))
               body == IF hasImage THEN <<"drawPixmap">> ELSE <<"setPen", "drawPoint">>
           IN  /\ ~shown => painter = <<>>
               /\ shown => (PainterFns = body \/ PainterFns = body \o <<"drawText">>)
               /\ (PainterFns # <<>> /\ PainterFns[Len(PainterFns)] = "drawText")
                    => C10_LabelWanted(zoom)

C10_Witness ==
    /\ call.op = "draw"
    /\ HasPixmap
    /\ m_alignment_type = "BottomRight"
    /\ ~Contains(call.args[1], toPointWorldPx(m_point_coord, call.args[2]))
    /\ PainterFns = <<"drawPixmap", "drawText">>

====
